---- MODULE Spec2Model ----
(***************************************************************************)
(* A model of recursive_variadic (src/src/lib.rs): a type-indexed          *)
(* heterogeneous container built from nested Entry<T, R> values over the   *)
(* base case Empty = ().                                                   *)
(*                                                                         *)
(* A container is a finite sequence of entries, the tip (the outermost     *)
(* Entry) first: Entry { data, parent } is <<[T, data]>> \o parent and     *)
(* Empty is <<>>.  The static type parameter T of an Entry is carried in   *)
(* the entry, because TypeId::of::<T>() is what the lookups compare.       *)
(* Values are bit patterns (small naturals): values of different types     *)
(* may have the same bits, so a lookup that matched on the value instead   *)
(* of the type would be observable.                                        *)
(*                                                                         *)
(* Spec        the calls on a raw container: and, get, get_mut and a write *)
(*             through the reference get_mut returned.                     *)
(* SpecScan    a lookup taken one activation of the recursion at a time.   *)
(* SpecWrapper the calls on a create_wrapper!(VecHolder, N => Vec<N>),     *)
(*             next to a raw container given the corresponding calls.      *)
(* SpecKey     the key-associated variant of the container, which is not   *)
(*             in src/src/lib.rs and is modelled from its description.     *)
(***************************************************************************)
EXTENDS Integers, Sequences, FiniteSets, TLC

\* ---------------------------------------------------------------- bounds
MaxDepth == 3
MaxVal == 1
MaxLen == 1

\* ----------------------------------------------------------------- types
\* The Any types used with the raw container (tests::it_works).
Types == {"i32", "usize", "bool"}

\* The types a lookup may name: the stored ones and one that is never
\* stored (tests::vec_variadic asks for String).
AnyTypes == Types \cup {"String"}

\* The values (bit patterns) a type has.
ValuesOf(t) == IF t = "bool" THEN 0..1 ELSE 0..MaxVal

\* TypeId::of::<t>(): one identity token per type.
TypeId(t) ==
    CASE t = "i32" -> 11
      [] t = "usize" -> 12
      [] t = "bool" -> 13
      [] t = "String" -> 14
      [] t = "u32" -> 15
      [] t = "Vec<usize>" -> 21
      [] t = "Vec<bool>" -> 22
      [] t = "Vec<u32>" -> 23
      [] t = "Vec<String>" -> 24
      [] OTHER -> 0

\* ------------------------------------------------------------ containers
\* Empty = ()
Empty == <<>>

\* Option<&N>: None, or Some(r) where r is the reference the transmute
\* produced: it points at the data field of the entry at height `slot`
\* above Empty (the entry whose own chain has `slot` entries) and is typed
\* `ty`, the requested N.
None == [some |-> FALSE, slot |-> 0, ty |-> "-"]
Some(slot, ty) == [some |-> TRUE, slot |-> slot, ty |-> ty]

\* <Empty as RecursiveVariadic>::get
Empty_get(N) == None

\* <Empty as RecursiveVariadic>::get_mut
Empty_get_mut(N) == None

\* get with the recursion into the parent lost: only the tip is examined.
get_tip_only(self, N) ==
    IF self = Empty THEN Empty_get(N)
    ELSE IF TypeId(N) = TypeId(Head(self).T)
         THEN Some(Len(self), N)
         ELSE Empty_get(N)

RECURSIVE get_same_id(_, _)
\* get comparing the wrong pair of identities (N with N): every entry
\* "matches", so the tip is reinterpreted as an N.
get_same_id(self, N) ==
    IF self = Empty THEN Empty_get(N)
    ELSE IF TypeId(N) = TypeId(N)
         THEN Some(Len(self), N)
         ELSE get_same_id(Tail(self), N)

RECURSIVE get_parent_first(_, _)
\* get asking the parent before looking at its own entry: the oldest
\* matching entry wins.
get_parent_first(self, N) ==
    IF self = Empty THEN Empty_get(N)
    ELSE LET p == get_parent_first(Tail(self), N)
         IN  IF p.some THEN p
             ELSE IF TypeId(N) = TypeId(Head(self).T)
                  THEN Some(Len(self), N)
                  ELSE Empty_get(N)

RECURSIVE get(_, _)
\* <Entry<T, R> as RecursiveVariadic>::get, dispatching to Empty at the base
get(self, N) ==
    IF self = Empty THEN Empty_get(N)
    ELSE IF TypeId(N) = TypeId(Head(self).T)
         THEN Some(Len(self), N)
         ELSE get(Tail(self), N)

RECURSIVE get_mut_parent_first(_, _)
\* get_mut asking the parent before looking at its own entry, so that it
\* addresses another slot than get when a type is stored twice.
get_mut_parent_first(self, N) ==
    IF self = Empty THEN Empty_get_mut(N)
    ELSE LET p == get_mut_parent_first(Tail(self), N)
         IN  IF p.some THEN p
             ELSE IF TypeId(N) = TypeId(Head(self).T)
                  THEN Some(Len(self), N)
                  ELSE Empty_get_mut(N)

RECURSIVE get_mut_same_id(_, _)
\* get_mut comparing the wrong pair of identities (N with N).
get_mut_same_id(self, N) ==
    IF self = Empty THEN Empty_get_mut(N)
    ELSE IF TypeId(N) = TypeId(N)
         THEN Some(Len(self), N)
         ELSE get_mut_same_id(Tail(self), N)

RECURSIVE get_mut(_, _)
\* <Entry<T, R> as RecursiveVariadic>::get_mut
get_mut(self, N) ==
    IF self = Empty THEN Empty_get_mut(N)
    ELSE IF TypeId(N) = TypeId(Head(self).T)
         THEN Some(Len(self), N)
         ELSE get_mut(Tail(self), N)

\* and replacing the value of an entry of the same type instead of adding
\* an entry (the behaviour of a map's insert).
and_replace(self, N, val) ==
    IF get(self, N).some
    THEN [self EXCEPT ![Len(self) - get(self, N).slot + 1].data = val]
    ELSE <<[T |-> N, data |-> val]>> \o self

\* RecursiveVariadic::and
and(self, N, val) == <<[T |-> N, data |-> val]>> \o self

\* The entry a reference into `self` points at, and a read / a write
\* through the reference.
SlotIndex(self, r) == Len(self) - r.slot + 1
Deref(self, r) == self[SlotIndex(self, r)].data
WriteRef(self, r, val) == [self EXCEPT ![SlotIndex(self, r)].data = val]

\* ------------------------------------- create_wrapper!(VecHolder, N => Vec<N>)
\* The N of tests::vec_variadic, and the N a lookup may name.
ElemTypes == {"usize", "bool", "u32"}
AnyElemTypes == ElemTypes \cup {"String"}

\* $output<N>, for $output = Vec
Output(N) ==
    CASE N = "usize" -> "Vec<usize>"
      [] N = "bool" -> "Vec<bool>"
      [] N = "u32" -> "Vec<u32>"
      [] N = "String" -> "Vec<String>"

\* The element the test pushes into the Vec<N>.
Pushed(N) ==
    CASE N = "usize" -> 2
      [] N = "bool" -> 0
      [] N = "u32" -> 0

RECURSIVE Repeat(_, _)
Repeat(e, n) == IF n = 0 THEN <<>> ELSE <<e>> \o Repeat(e, n - 1)

\* The values of Vec<N>: the vectors of at most MaxLen pushed elements.
VecsOf(N) == {Repeat(Pushed(N), n) : n \in 0..MaxLen}

\* <Vec<N> as Default>::default()
Default(t) == <<>>

\* $name<()>::new
VecHolder_new == [data |-> Empty]

\* $name<R>::get: the get of the wrapped container with N without $output
\* applied to it.
VecHolder_get_raw_N(self, N) == get(self.data, N)

\* $name<R>::get
VecHolder_get(self, N) == get(self.data, Output(N))

\* $name<R>::get_mut
VecHolder_get_mut(self, N) == get_mut(self.data, Output(N))

\* $name<R>::and
VecHolder_and(self, N, val) == [data |-> and(self.data, Output(N), val)]

\* $name<R>::and_default leaving the container as it is when the type is
\* already held (a default that does not shadow).
VecHolder_and_default_once(self, N) ==
    IF get(self.data, Output(N)).some
    THEN self
    ELSE [data |-> and(self.data, Output(N), Default(Output(N)))]

\* $name<R>::and_default
VecHolder_and_default(self, N) ==
    [data |-> and(self.data, Output(N), Default(Output(N)))]

\* ------------------------------------------ one activation of a lookup
\* One activation of get on `self` that carries a match over to its
\* parent and returns only at the last entry.
get_step_to_last(self, N) ==
    IF self = Empty
    THEN [done |-> TRUE, res |-> Empty_get(N), rest |-> Empty]
    ELSE IF TypeId(N) = TypeId(Head(self).T) /\ Tail(self) = Empty
         THEN [done |-> TRUE, res |-> Some(Len(self), N), rest |-> self]
         ELSE [done |-> FALSE, res |-> None, rest |-> Tail(self)]

\* One activation of get on `self`: it returns (done), or calls get on
\* its parent (rest).  <Empty>::get and <Entry<T, R>>::get.
get_step(self, N) ==
    IF self = Empty
    THEN [done |-> TRUE, res |-> Empty_get(N), rest |-> Empty]
    ELSE IF TypeId(N) = TypeId(Head(self).T)
         THEN [done |-> TRUE, res |-> Some(Len(self), N), rest |-> self]
         ELSE [done |-> FALSE, res |-> None, rest |-> Tail(self)]

\* One activation of get_mut on `self`.
get_mut_step(self, N) ==
    IF self = Empty
    THEN [done |-> TRUE, res |-> Empty_get_mut(N), rest |-> Empty]
    ELSE IF TypeId(N) = TypeId(Head(self).T)
         THEN [done |-> TRUE, res |-> Some(Len(self), N), rest |-> self]
         ELSE [done |-> FALSE, res |-> None, rest |-> Tail(self)]

\* ---------------------------------------- the key-associated container
\* The key types, each declaring its value type; K1 and K2 declare the
\* same one.  K4 is never inserted.
Keys == {"K1", "K2", "K3"}
AnyKeys == Keys \cup {"K4"}

\* <K as Key>::Value
Value(K) ==
    CASE K = "K1" -> "usize"
      [] K = "K2" -> "usize"
      [] K = "K3" -> "bool"
      [] K = "K4" -> "usize"

\* TypeId::of::<K>()
KeyId(K) ==
    CASE K = "K1" -> 31
      [] K = "K2" -> 32
      [] K = "K3" -> 33
      [] K = "K4" -> 34

\* insert::<K>(value: K::Value)
Key_and(self, K, val) == <<[K |-> K, data |-> val]>> \o self

RECURSIVE Key_get_by_value(_, _)
\* get::<K> comparing the declared value types instead of the keys.
Key_get_by_value(self, K) ==
    IF self = Empty THEN None
    ELSE IF TypeId(Value(K)) = TypeId(Value(Head(self).K))
         THEN Some(Len(self), K)
         ELSE Key_get_by_value(Tail(self), K)

RECURSIVE Key_get(_, _)
\* get::<K>
Key_get(self, K) ==
    IF self = Empty THEN None
    ELSE IF KeyId(K) = KeyId(Head(self).K)
         THEN Some(Len(self), K)
         ELSE Key_get(Tail(self), K)

RECURSIVE Key_get_mut(_, _)
\* get_mut::<K>
Key_get_mut(self, K) ==
    IF self = Empty THEN None
    ELSE IF KeyId(K) = KeyId(Head(self).K)
         THEN Some(Len(self), K)
         ELSE Key_get_mut(Tail(self), K)

\* ----------------------------------------------------------------- state
VARIABLES
    thing,      \* the raw container
    last,       \* the last call made on it and its result
    ins,        \* history: the types inserted, newest first
    held,       \* history: per type, the value last given for it, by an
                \* insertion or by a write through get_mut
    written,    \* history: per type, whether that value was given by a
                \* write made since the newest insertion of the type
    pc,         \* the lookup in progress on thing: "idle", "get",
                \* "get_mut", or "ret" once it has returned
    req,        \* the type it asks for
    cur,        \* the self of its current activation
    visited,    \* history: the heights of the entries it has compared
    sres,       \* its result
    my_vecs,    \* a VecHolder
    raw_vecs,   \* the raw container given the corresponding calls
    wlast,      \* the last call on my_vecs, its result and the result of
                \* the corresponding call on raw_vecs
    kthing,     \* a key-associated container
    klast,      \* the last call made on it and its result
    kheld,      \* history: per key, the value last given for it
    kwritten    \* history: per key, whether a write gave it

rawvars == <<thing, last, ins, held, written>>
scanvars == <<pc, req, cur, visited, sres>>
wrapvars == <<my_vecs, raw_vecs, wlast>>
keyvars == <<kthing, klast, kheld, kwritten>>
vars == <<rawvars, scanvars, wrapvars, keyvars>>

\* No value of any type: the mark of "never inserted".
NoValue == MaxVal + 1

Init ==
    /\ thing = Empty
    /\ last = [op |-> "new", N |-> "-", res |-> None]
    /\ ins = <<>>
    /\ held = [t \in Types |-> NoValue]
    /\ written = [t \in Types |-> FALSE]
    /\ pc = "idle"
    /\ req = "-"
    /\ cur = Empty
    /\ visited = <<>>
    /\ sres = None
    /\ my_vecs = VecHolder_new
    /\ raw_vecs = Empty
    /\ wlast = [op |-> "new", N |-> "-", res |-> None, raw |-> None]
    /\ kthing = Empty
    /\ klast = [op |-> "new", N |-> "-", res |-> None]
    /\ kheld = [k \in Keys |-> NoValue]
    /\ kwritten = [k \in Keys |-> FALSE]

\* ------------------------------------------- calls on the raw container
\* thing = thing.and::<N>(val)
And(N, val) ==
    /\ Len(thing) < MaxDepth
    /\ thing' = and(thing, N, val)
    /\ last' = [op |-> "and", N |-> N, res |-> None]
    /\ ins' = <<N>> \o ins
    /\ held' = [held EXCEPT ![N] = val]
    /\ written' = [written EXCEPT ![N] = FALSE]
    /\ UNCHANGED <<scanvars, wrapvars, keyvars>>

\* thing.get::<N>()
Get(N) ==
    /\ last' = [op |-> "get", N |-> N, res |-> get(thing, N)]
    /\ UNCHANGED <<thing, ins, held, written, scanvars, wrapvars, keyvars>>

\* let r = thing.get_mut::<N>()
GetMut(N) ==
    /\ last' = [op |-> "get_mut", N |-> N, res |-> get_mut(thing, N)]
    /\ UNCHANGED <<thing, ins, held, written, scanvars, wrapvars, keyvars>>

\* *r = val, for the r a get_mut just returned (the borrow ends with the
\* next call on the container)
Write(val) ==
    /\ last.op \in {"get_mut", "write"}
    /\ last.res.some
    /\ val \in ValuesOf(last.res.ty)
    /\ thing' = WriteRef(thing, last.res, val)
    /\ last' = [last EXCEPT !.op = "write"]
    /\ held' = [held EXCEPT ![last.N] = val]
    /\ written' = [written EXCEPT ![last.N] = TRUE]
    /\ UNCHANGED <<ins, scanvars, wrapvars, keyvars>>

Next ==
    \/ \E N \in Types : \E val \in ValuesOf(N) : And(N, val)
    \/ \E N \in AnyTypes : Get(N)
    \/ \E N \in AnyTypes : GetMut(N)
    \/ \E val \in 0..MaxVal : Write(val)

Spec == Init /\ [][Next]_vars

\* ------------------------------------- a lookup, activation by activation
\* thing = thing.and::<N>(val), between two lookups
ScanAnd(N, val) ==
    /\ pc \in {"idle", "ret"}
    /\ Len(thing) < MaxDepth
    /\ thing' = and(thing, N, val)
    /\ last' = [op |-> "and", N |-> N, res |-> None]
    /\ ins' = <<N>> \o ins
    /\ held' = [held EXCEPT ![N] = val]
    /\ written' = [written EXCEPT ![N] = FALSE]
    /\ pc' = "idle"
    /\ UNCHANGED <<req, cur, visited, sres, wrapvars, keyvars>>

\* thing.get::<N>() or thing.get_mut::<N>() is called: the first
\* activation is on the whole container
ScanCall(kind, N) ==
    /\ pc \in {"idle", "ret"}
    /\ pc' = kind
    /\ req' = N
    /\ cur' = thing
    /\ visited' = <<>>
    /\ sres' = None
    /\ UNCHANGED <<rawvars, wrapvars, keyvars>>

\* the current activation runs: it returns, or calls the parent's
ScanStep ==
    /\ pc \in {"get", "get_mut"}
    /\ LET a == IF pc = "get" THEN get_step(cur, req)
                ELSE get_mut_step(cur, req)
       IN  /\ visited' = IF cur = Empty THEN visited
                         ELSE Append(visited, Len(cur))
           /\ cur' = a.rest
           /\ sres' = a.res
           /\ pc' = IF a.done THEN "ret" ELSE pc
    /\ UNCHANGED <<req, rawvars, wrapvars, keyvars>>

NextScan ==
    \/ \E N \in Types : \E val \in ValuesOf(N) : ScanAnd(N, val)
    \/ \E kind \in {"get", "get_mut"} : \E N \in AnyTypes : ScanCall(kind, N)
    \/ ScanStep

\* Every call runs to completion: a lookup in progress takes its next step.
SpecScan == Init /\ [][NextScan]_vars /\ WF_vars(ScanStep)

\* ------------------------------------------------ calls on the VecHolder
\* my_vecs = VecHolder::new()
WNew ==
    /\ my_vecs' = VecHolder_new
    /\ raw_vecs' = Empty
    /\ wlast' = [op |-> "new", N |-> "-", res |-> None, raw |-> None]
    /\ UNCHANGED <<rawvars, scanvars, keyvars>>

\* my_vecs = my_vecs.and::<N>(val)
WAnd(N, val) ==
    /\ Len(my_vecs.data) < MaxDepth
    /\ my_vecs' = VecHolder_and(my_vecs, N, val)
    /\ raw_vecs' = and(raw_vecs, Output(N), val)
    /\ wlast' = [op |-> "and", N |-> N, res |-> None, raw |-> None]
    /\ UNCHANGED <<rawvars, scanvars, keyvars>>

\* my_vecs = my_vecs.and_default::<N>()
WAndDefault(N) ==
    /\ Len(my_vecs.data) < MaxDepth
    /\ my_vecs' = VecHolder_and_default(my_vecs, N)
    /\ raw_vecs' = and(raw_vecs, Output(N), Default(Output(N)))
    /\ wlast' = [op |-> "and_default", N |-> N, res |-> None, raw |-> None]
    /\ UNCHANGED <<rawvars, scanvars, keyvars>>

\* my_vecs.get::<N>()
WGet(N) ==
    /\ wlast' = [op |-> "get", N |-> N,
                 res |-> VecHolder_get(my_vecs, N),
                 raw |-> get(raw_vecs, Output(N))]
    /\ UNCHANGED <<my_vecs, raw_vecs, rawvars, scanvars, keyvars>>

\* let r = my_vecs.get_mut::<N>()
WGetMut(N) ==
    /\ wlast' = [op |-> "get_mut", N |-> N,
                 res |-> VecHolder_get_mut(my_vecs, N),
                 raw |-> get_mut(raw_vecs, Output(N))]
    /\ UNCHANGED <<my_vecs, raw_vecs, rawvars, scanvars, keyvars>>

\* r.push(e), for the r a get_mut just returned
WPush ==
    /\ wlast.op \in {"get_mut", "push"}
    /\ wlast.res.some
    /\ wlast.raw.some
    /\ Len(Deref(my_vecs.data, wlast.res)) < MaxLen
    /\ Len(Deref(raw_vecs, wlast.raw)) < MaxLen
    /\ my_vecs' = [data |-> WriteRef(my_vecs.data, wlast.res,
                       Append(Deref(my_vecs.data, wlast.res), Pushed(wlast.N)))]
    /\ raw_vecs' = WriteRef(raw_vecs, wlast.raw,
                       Append(Deref(raw_vecs, wlast.raw), Pushed(wlast.N)))
    /\ wlast' = [wlast EXCEPT !.op = "push"]
    /\ UNCHANGED <<rawvars, scanvars, keyvars>>

NextWrapper ==
    \/ WNew
    \/ \E N \in ElemTypes : \E val \in VecsOf(N) : WAnd(N, val)
    \/ \E N \in ElemTypes : WAndDefault(N)
    \/ \E N \in AnyElemTypes : WGet(N)
    \/ \E N \in AnyElemTypes : WGetMut(N)
    \/ WPush

SpecWrapper == Init /\ [][NextWrapper]_vars

\* ------------------------------- calls on the key-associated container
\* kthing = kthing.insert::<K>(val)
KAnd(K, val) ==
    /\ Len(kthing) < MaxDepth
    /\ kthing' = Key_and(kthing, K, val)
    /\ klast' = [op |-> "and", N |-> K, res |-> None]
    /\ kheld' = [kheld EXCEPT ![K] = val]
    /\ kwritten' = [kwritten EXCEPT ![K] = FALSE]
    /\ UNCHANGED <<rawvars, scanvars, wrapvars>>

\* kthing.get::<K>()
KGet(K) ==
    /\ klast' = [op |-> "get", N |-> K, res |-> Key_get(kthing, K)]
    /\ UNCHANGED <<kthing, kheld, kwritten, rawvars, scanvars, wrapvars>>

\* let r = kthing.get_mut::<K>()
KGetMut(K) ==
    /\ klast' = [op |-> "get_mut", N |-> K, res |-> Key_get_mut(kthing, K)]
    /\ UNCHANGED <<kthing, kheld, kwritten, rawvars, scanvars, wrapvars>>

\* *r = val, for the r a get_mut just returned
KWrite(val) ==
    /\ klast.op \in {"get_mut", "write"}
    /\ klast.res.some
    /\ val \in ValuesOf(Value(klast.res.ty))
    /\ kthing' = WriteRef(kthing, klast.res, val)
    /\ klast' = [klast EXCEPT !.op = "write"]
    /\ kheld' = [kheld EXCEPT ![klast.N] = val]
    /\ kwritten' = [kwritten EXCEPT ![klast.N] = TRUE]
    /\ UNCHANGED <<rawvars, scanvars, wrapvars>>

NextKey ==
    \/ \E K \in Keys : \E val \in ValuesOf(Value(K)) : KAnd(K, val)
    \/ \E K \in AnyKeys : KGet(K)
    \/ \E K \in AnyKeys : KGetMut(K)
    \/ \E val \in 0..MaxVal : KWrite(val)

SpecKey == Init /\ [][NextKey]_vars

\* ------------------------------------------------- history of the calls
\* The positions (newest first) of the insertions of type N.
InsertionsOf(N) == {i \in 1..Len(ins) : ins[i] = N}
Inserted(N) == InsertionsOf(N) # {}
\* The newest insertion of N, and the height of the entry it created.
NewestOf(N) == CHOOSE i \in InsertionsOf(N) : \A j \in InsertionsOf(N) : i <= j
HeightOf(i) == Len(ins) - i + 1
DistinctTypes == \A i, j \in 1..Len(ins) : i # j => ins[i] # ins[j]
\* The entries of `thing` holding an N, by position (tip = 1).
EntriesOf(N) == {i \in 1..Len(thing) : thing[i].T = N}

\* ------------------------------------------------------------------ C1
\* C1: in a container built by inserting pairwise distinct types, get of
\* each inserted type is Some of exactly the value inserted for it (as
\* long as nothing was written over that value), in any order of the
\* insertions and for any number of them.
IdentityCorrectness ==
    DistinctTypes =>
        \A N \in Types :
            (Inserted(N) /\ ~written[N]) =>
                LET r == get(thing, N)
                IN  /\ r.some
                    /\ Deref(thing, r) = held[N]
                    /\ (last.op = "get" /\ last.N = N) => last.res = r

\* Three distinct types inserted, not all with the same value, and a get
\* has found the oldest of them.
IdentityWitness ==
    /\ Len(ins) = 3
    /\ DistinctTypes
    /\ \A t \in Types : ~written[t]
    /\ last.op = "get"
    /\ last.N = ins[3]
    /\ last.res.some
    /\ \E i \in 1..2 : held[ins[i]] # held[ins[3]]

\* ------------------------------------------------------------------ C2
\* C2: get and get_mut return Some only with a reference into an entry
\* whose stored type is exactly the requested type, whatever the values.
TypeExactLookup ==
    /\ \A N \in AnyTypes :
        /\ get(thing, N).some =>
              /\ get(thing, N).ty = N
              /\ thing[SlotIndex(thing, get(thing, N))].T = N
        /\ get_mut(thing, N).some =>
              /\ get_mut(thing, N).ty = N
              /\ thing[SlotIndex(thing, get_mut(thing, N))].T = N
    /\ (last.op \in {"get", "get_mut", "write"} /\ last.res.some) =>
          /\ last.res.ty = last.N
          /\ thing[SlotIndex(thing, last.res)].T = last.N

\* A lookup went past an entry of another type that holds the same bits
\* as the entry it returned.
TypeExactWitness ==
    /\ last.op \in {"get", "get_mut"}
    /\ last.res.some
    /\ Len(thing) >= 2
    /\ thing[1].T # last.N
    /\ thing[1].data = Deref(thing, last.res)

\* ------------------------------------------------------------------ C3
\* C3: for a type never inserted (every type, for the Empty container)
\* get and get_mut return None, as an ordinary result of the call.
AbsenceCorrectness ==
    /\ \A N \in AnyTypes :
          ~Inserted(N) => get(thing, N) = None /\ get_mut(thing, N) = None
    /\ (last.op \in {"get", "get_mut"} /\ ~Inserted(last.N)) => last.res = None
    /\ thing = Empty =>
          \A N \in AnyTypes : Empty_get(N) = None /\ Empty_get_mut(N) = None

\* A lookup of a never-inserted type returned None from a container that
\* holds entries.
AbsenceWitness ==
    /\ last.op \in {"get", "get_mut"}
    /\ ~Inserted(last.N)
    /\ last.res = None
    /\ Len(thing) >= 2

\* ------------------------------------------------------------------ C4
\* C4: when a type N was inserted more than once, get and get_mut address
\* the entry of the most recent insertion of N, never an older one, and
\* the value is the one most recently inserted (unless since overwritten
\* through get_mut), whatever other types were inserted in between or
\* afterwards.
ShadowingLaw ==
    \A N \in Types :
        Cardinality(InsertionsOf(N)) >= 2 =>
            /\ get(thing, N).some
            /\ get_mut(thing, N).some
            /\ get(thing, N).slot = HeightOf(NewestOf(N))
            /\ get_mut(thing, N).slot = HeightOf(NewestOf(N))
            /\ ~written[N] =>
                  /\ Deref(thing, get(thing, N)) = held[N]
                  /\ Deref(thing, get_mut(thing, N)) = held[N]

\* A type inserted twice with different values, another type inserted
\* after it, and a get of the type done.
ShadowingWitness ==
    \E N \in Types :
        /\ Cardinality(InsertionsOf(N)) >= 2
        /\ \E i, j \in EntriesOf(N) : thing[i].data # thing[j].data
        /\ ins[1] # N
        /\ ~written[N]
        /\ last.op = "get"
        /\ last.N = N

\* ------------------------------------------------------------------ C5
\* C5: after a write through the reference get_mut::<N> returned, get::<N>
\* and get_mut::<N> return the written value.
MutationVisibility ==
    \A N \in Types :
        written[N] =>
            /\ get(thing, N).some
            /\ Deref(thing, get(thing, N)) = held[N]
            /\ get_mut(thing, N).some
            /\ Deref(thing, get_mut(thing, N)) = held[N]
            /\ (last.op \in {"get", "get_mut"} /\ last.N = N) =>
                  last.res.some /\ Deref(thing, last.res) = held[N]

\* A value was written to a type stored twice, the older entry holds
\* another value, and a later get of that type has returned.
MutationWitness ==
    \E N \in Types :
        /\ written[N]
        /\ Cardinality(EntriesOf(N)) >= 2
        /\ \E i \in EntriesOf(N) : thing[i].data # held[N]
        /\ last.op = "get"
        /\ last.N = N

\* ------------------------------------------------------------------ C6
\* A step that inserts adds one entry at the tip, holding the inserted
\* value under the inserted type, with the former container as its parent.
AndStep ==
    ins' # ins =>
        /\ Len(thing') = Len(thing) + 1
        /\ Head(thing') = [T |-> Head(ins'), data |-> held'[Head(ins')]]
        /\ Tail(thing') = thing

\* The chain has one entry per insertion made, newest first, and (below
\* the bound of the model) every insertion is possible.
ChainShape ==
    /\ Len(thing) = Len(ins)
    /\ \A i \in 1..Len(thing) : thing[i].T = ins[i]
    /\ \A N \in Types : \A val \in ValuesOf(N) :
          Len(thing) < MaxDepth => ENABLED And(N, val)

\* C6: every and succeeds and adds exactly one entry at the tip, holding
\* the inserted value under the inserted type, with the container it was
\* called on as its parent, unchanged; so after k insertions the chain has
\* exactly k entries, newest first.  A type already present does not
\* prevent it.
InsertExtends == [][AndStep]_vars /\ []ChainShape

\* An insertion of a type the container already held has been made.
InsertWitness ==
    /\ last.op = "and"
    /\ Cardinality(InsertionsOf(last.N)) >= 2
    /\ Len(thing) = 3

\* ----------------------------------------------------------------- C10
\* What a lookup step and a write step leave as it was.
FrameStep ==
    /\ last'.op \in {"get", "get_mut"} => thing' = thing
    /\ last'.op = "write" =>
          /\ Len(thing') = Len(thing)
          /\ \A i \in 1..Len(thing) :
                /\ thing'[i].T = thing[i].T
                /\ thing'[i] # thing[i] =>
                      /\ thing[i].T = last'.N
                      /\ \A j \in EntriesOf(last'.N) : i <= j

\* C10: get (and the get_mut call itself) leaves the container unchanged;
\* a write through the reference of get_mut::<N> changes only the data of
\* the entry of type N nearest the tip: every other entry, the older
\* entries of type N, and the number and order of the entries stay.
LookupFrame == [][FrameStep]_vars

\* A write has given the newest of two entries of one type a value other
\* than the older one's, in a container that also holds another type.
FrameWitness ==
    /\ last.op = "write"
    /\ Cardinality(EntriesOf(last.N)) >= 2
    /\ \E i \in 1..Len(thing) : thing[i].T # last.N
    /\ \E i \in EntriesOf(last.N) : thing[i].data # held[last.N]

\* ------------------------------------------------------------------ C7
\* C7: two keys that declare the same value type, both inserted, are
\* addressed independently: a lookup by either key returns a reference
\* into an entry of that key, never of the other, holding the value last
\* given under that key.
KeyValueDecoupling ==
    \A Ka, Kb \in Keys :
        (/\ Ka # Kb
         /\ Value(Ka) = Value(Kb)
         /\ kheld[Ka] # NoValue
         /\ kheld[Kb] # NoValue) =>
            /\ Key_get(kthing, Ka).some
            /\ kthing[SlotIndex(kthing, Key_get(kthing, Ka))].K = Ka
            /\ Deref(kthing, Key_get(kthing, Ka)) = kheld[Ka]
            /\ Key_get_mut(kthing, Ka).some
            /\ kthing[SlotIndex(kthing, Key_get_mut(kthing, Ka))].K = Ka
            /\ Deref(kthing, Key_get_mut(kthing, Ka)) = kheld[Ka]
            /\ (klast.op \in {"get", "get_mut"} /\ klast.N = Ka) =>
                  klast.res.some /\ Deref(kthing, klast.res) = kheld[Ka]

\* K1 and K2 hold different values of their common value type, and a get
\* by the key inserted first has returned.
KeyValueWitness ==
    /\ Len(kthing) >= 2
    /\ kheld["K1"] # NoValue
    /\ kheld["K2"] # NoValue
    /\ kheld["K1"] # kheld["K2"]
    /\ klast.op = "get"
    /\ klast.N = kthing[Len(kthing)].K
    /\ klast.N \in {"K1", "K2"}
    /\ kthing[1].K \in {"K1", "K2"} \ {klast.N}

\* ------------------------------------------------------------------ C8
\* C8: the VecHolder behaves as the raw container given the corresponding
\* calls with Vec<N> for N: it holds the same entries, new corresponds to
\* Empty, every get and get_mut has the same result, and and_default is
\* and of the default value.
WrapperEquivalence ==
    /\ my_vecs.data = raw_vecs
    /\ VecHolder_new.data = Empty
    /\ \A N \in AnyElemTypes :
          /\ VecHolder_get(my_vecs, N) = get(raw_vecs, Output(N))
          /\ VecHolder_get_mut(my_vecs, N) = get_mut(raw_vecs, Output(N))
    /\ wlast.res = wlast.raw
    /\ \A N \in ElemTypes :
          VecHolder_and_default(my_vecs, N)
              = VecHolder_and(my_vecs, N, Default(Output(N)))

\* tests::vec_variadic: three vectors added, the last with and, one
\* element pushed into each, and get::<String>() has returned None.
WrapperWitness ==
    /\ Len(my_vecs.data) = 3
    /\ \A N \in ElemTypes :
          /\ VecHolder_get(my_vecs, N).some
          /\ Len(Deref(my_vecs.data, VecHolder_get(my_vecs, N))) = 1
    /\ wlast = [op |-> "get", N |-> "String", res |-> None, raw |-> None]

\* ------------------------------------------------------------------ C9
\* The entries a lookup has compared so far, and its result once it has
\* returned (which is also the result of get and get_mut as recursive
\* functions).
ScanOrder ==
    pc # "idle" =>
        /\ Len(visited) <= Len(thing)
        /\ \A i \in 1..Len(visited) : visited[i] = Len(thing) - i + 1
        /\ \A i \in 1..Len(visited) :
              thing[i].T = req => (i = Len(visited) /\ pc = "ret")
        /\ pc \in {"get", "get_mut"} =>
              cur = SubSeq(thing, Len(visited) + 1, Len(thing))
        /\ pc = "ret" =>
              /\ sres.some =>
                    /\ visited # <<>>
                    /\ sres.slot = visited[Len(visited)]
                    /\ thing[Len(visited)].T = req
              /\ ~sres.some <=> (Len(visited) = Len(thing) /\ EntriesOf(req) = {})
              /\ ~sres.some <=> cur = Empty
              /\ sres = get(thing, req)
              /\ sres = get_mut(thing, req)

\* C9: a lookup on a chain of depth d compares at most d entries, in
\* order from the tip towards Empty, stops at the first entry of the
\* requested type without comparing any entry below it, returns None
\* exactly when it has reached Empty, and always returns.
ScanTerminates == []ScanOrder /\ (pc \in {"get", "get_mut"} ~> pc = "ret")

\* A lookup has returned the second entry of a chain of three, whose
\* oldest entry has the requested type too.
ScanWitness ==
    /\ pc = "ret"
    /\ Len(thing) = 3
    /\ sres.some
    /\ visited = <<3, 2>>
    /\ thing[3].T = req

====
